---- MODULE Spec2Model ----
(***************************************************************************)
(* A model of tmpl_ldr.py, the "TeMPLate LoaDeR": load_tmpl_str resolves   *)
(* {{$import}} markers by recursive loads and then {{variable}} markers    *)
(* from the keyword arguments.                                             *)
(*                                                                         *)
(* A text is a sequence of one-character strings.  Positions are 1-based:  *)
(* a Python index p is the position p+1 here, and a match is recorded by   *)
(* the positions of its first and last character.                          *)
(***************************************************************************)
EXTENDS Integers, Sequences, FiniteSets, TLC

VARIABLES
    fs,         \* the template files on disk: path -> content (absent = no such file)
    call,       \* the arguments of the top-level load_tmpl_str call
    stack,      \* the active load_tmpl_str calls, the innermost last
    outcome,    \* how the top-level call ended
    opened,     \* the paths passed to open(), in order
    lastSplice  \* the last substitution made

vars == <<fs, call, stack, outcome, opened, lastSplice>>

\* Number of fragments a root text is built from.
MaxParts == 3

\* The same, for the runs that check termination.
LiveParts == 1

-----------------------------------------------------------------------------
(* Regular expressions and string helpers *)

Braces == {"{", "}"}

NoMatch == [start |-> 0, end |-> 0, group |-> <<>>]

\* [^\{\}]+ is greedy: the length of the run of non-brace characters from i.
RECURSIVE NonBraceRun(_, _)
NonBraceRun(text, i) ==
    IF i > Len(text) \/ text[i] \in Braces THEN 0
    ELSE 1 + NonBraceRun(text, i + 1)

\* IMPORT_FORMAT = \{\{\$([^\{\}]+)\}\} tried at position i.
IMPORT_FORMAT(text, i) ==
    LET n == NonBraceRun(text, i + 3) IN
    IF /\ i + 5 + n - 1 <= Len(text)
       /\ text[i] = "{" /\ text[i + 1] = "{" /\ text[i + 2] = "$"
       /\ n >= 1
       /\ text[i + 3 + n] = "}" /\ text[i + 4 + n] = "}"
    THEN [start |-> i, end |-> i + 4 + n, group |-> SubSeq(text, i + 3, i + 2 + n)]
    ELSE NoMatch

\* VARIABLE_FORMAT = \{\{([^\$][^\{\}]+)\}\} tried at position i.
VARIABLE_FORMAT(text, i) ==
    LET n == NonBraceRun(text, i + 3) IN
    IF /\ i + 5 + n - 1 <= Len(text)
       /\ text[i] = "{" /\ text[i + 1] = "{" /\ text[i + 2] # "$"
       /\ n >= 1
       /\ text[i + 3 + n] = "}" /\ text[i + 4 + n] = "}"
    THEN [start |-> i, end |-> i + 4 + n, group |-> SubSeq(text, i + 2, i + 2 + n)]
    ELSE NoMatch

RECURSIVE ImportFrom(_, _)
ImportFrom(content, i) ==
    IF i > Len(content) THEN NoMatch
    ELSE IF IMPORT_FORMAT(content, i) # NoMatch THEN IMPORT_FORMAT(content, i)
    ELSE ImportFrom(content, i + 1)

\* The same scan from the end of the text backwards (used by the faulty variant
\* SearchImportLast only).
RECURSIVE ImportBackFrom(_, _)
ImportBackFrom(content, i) ==
    IF i < 1 THEN NoMatch
    ELSE IF IMPORT_FORMAT(content, i) # NoMatch THEN IMPORT_FORMAT(content, i)
    ELSE ImportBackFrom(content, i - 1)

\* Faulty variant: re.match in place of re.search, the pattern is tried at the start only.
MatchImportAtStart(content) == IMPORT_FORMAT(content, 1)

\* Faulty variant: the last import of the text in place of the first.
SearchImportLast(content) == ImportBackFrom(content, Len(content))

\* re.search(IMPORT_FORMAT,content): the leftmost match.
SearchImport(content) == ImportFrom(content, 1)

RECURSIVE VariableFrom(_, _)
VariableFrom(content, i) ==
    IF i > Len(content) THEN NoMatch
    ELSE IF VARIABLE_FORMAT(content, i) # NoMatch THEN VARIABLE_FORMAT(content, i)
    ELSE VariableFrom(content, i + 1)

\* re.search(VARIABLE_FORMAT,content): the leftmost match.
SearchVariable(content) == VariableFrom(content, 1)

\* INDENT_DELIMITER = [^\t ]{1} matched against one character.
INDENT_DELIMITER(c) == c \notin {"\t", " "}

RECURSIVE IndentScan(_, _)
IndentScan(text, start_at) ==
    IF start_at >= 1 /\ ~INDENT_DELIMITER(text[start_at])
    THEN Append(IndentScan(text, start_at - 1), text[start_at])
    ELSE <<>>

\* Faulty variant: the scan starts on the marker's first character, not before it.
get_indent_from_marker(text, start_at) == IndentScan(text, start_at + 1)

\* get_indent_for(text,start_at); start_at is the position of the character
\* before the marker, 0 when the marker opens the text.
get_indent_for(text, start_at) ==
    IndentScan(text, IF start_at > Len(text) THEN Len(text) ELSE start_at)

\* str.find(sub) from position i: the position of the first occurrence, or 0.
RECURSIVE FindFrom(_, _, _)
FindFrom(text, sub, i) ==
    IF i + Len(sub) - 1 > Len(text) THEN 0
    ELSE IF SubSeq(text, i, i + Len(sub) - 1) = sub THEN i
    ELSE FindFrom(text, sub, i + 1)

str_find(text, sub) == FindFrom(text, sub, 1)

\* text.split("\n")
RECURSIVE split(_, _)
split(text, sep) ==
    LET p == str_find(text, sep) IN
    IF p = 0 THEN <<text>>
    ELSE <<SubSeq(text, 1, p - 1)>> \o split(SubSeq(text, p + Len(sep), Len(text)), sep)

\* The for loop of apply_indent_to from line line_idx on.
RECURSIVE IndentLines(_, _, _)
IndentLines(lines, indent, line_idx) ==
    IF line_idx > Len(lines) THEN <<>>
    ELSE (IF line_idx > 1 THEN indent ELSE <<>>) \o lines[line_idx] \o <<"\n">>
         \o IndentLines(lines, indent, line_idx + 1)

\* str.rstrip(chars)
RECURSIVE rstrip(_, _)
rstrip(text, chars) ==
    IF text # <<>> /\ text[Len(text)] \in chars
    THEN rstrip(SubSeq(text, 1, Len(text) - 1), chars)
    ELSE text

\* apply_indent_to(text,indent)
apply_indent_to(text, indent) ==
    LET acc == IndentLines(split(text, <<"\n">>), indent, 1) IN
    rstrip(SubSeq(acc, 1, Len(acc) - 1), {"\t", " ", "\r", "\n"})

\* str.replace(old,new): every non-overlapping occurrence, left to right.
RECURSIVE str_replace(_, _, _)
str_replace(text, old, new) ==
    LET p == str_find(text, old) IN
    IF p = 0 THEN text
    ELSE SubSeq(text, 1, p - 1) \o new
         \o str_replace(SubSeq(text, p + Len(old), Len(text)), old, new)

\* '{{'+var+'}}'
Marker(var) == <<"{", "{">> \o var \o <<"}", "}">>

\* content[0:start]+replacement+content[end:]
Splice(content, m, replacement) ==
    SubSeq(content, 1, m.start - 1) \o replacement \o SubSeq(content, m.end + 1, Len(content))

\* kwargs is the sequence of (name, value) pairs in the order they were given.
HasKey(kwargs, name) == \E k \in 1..Len(kwargs) : kwargs[k].name = name

Get(kwargs, name) == kwargs[CHOOSE k \in 1..Len(kwargs) : kwargs[k].name = name].value

-----------------------------------------------------------------------------
(* The inputs: root texts, template files, keyword arguments *)

IMP_A == <<"{", "{", "$", "a", "}", "}">>
IMP_B == <<"{", "{", "$", "b", "}", "}">>
IMP_C == <<"{", "{", "$", "c", "}", "}">>
VAR_AB == <<"{", "{", "a", "b", "}", "}">>
VAR_CD == <<"{", "{", "c", "d", "}", "}">>
VAR_X == <<"{", "{", "x", "}", "}">>

Parts == {IMP_A, VAR_AB, VAR_X, <<"\t">>, <<"\n">>}

RECURSIVE Texts(_)
Texts(n) ==
    IF n = 0 THEN {<<>>}
    ELSE Texts(n - 1) \cup {p \o t : p \in Parts, t \in Texts(n - 1)}

RootTexts == Texts(MaxParts)

\* Files a, b, c, each of them there or not; a imports b and c, c imports b:
\* no file imports itself.
FileA == { IMP_B \o <<"\n", "\t">> \o IMP_C,
           <<"p", "\n">> \o VAR_AB \o <<"\n">> }
FileB == { <<"r", "\n", "s", "\n">> }
FileC == { <<" ">> \o IMP_B }

FileSystems ==
    { a @@ b @@ c :
        a \in {<<>>} \cup {(<<"a">> :> x) : x \in FileA},
        b \in {<<>>} \cup {(<<"b">> :> x) : x \in FileB},
        c \in {<<>>} \cup {(<<"c">> :> x) : x \in FileC} }

KW(name, value) == [name |-> name, value |-> value]

KwargsChoices ==
    { <<>>,
      <<KW(<<"a", "b">>, <<"v">>)>>,
      <<KW(<<"a", "b">>, <<"p", "\n", "q">>)>>,
      <<KW(<<"a", "b">>, <<"p", "\n", "q", "\n", " ">>)>>,
      <<KW(<<"a", "b">>, <<>>)>>,
      <<KW(<<"a", "b">>, IMP_C)>>,
      <<KW(<<"a", "b">>, VAR_CD), KW(<<"c", "d">>, <<"v">>)>>,
      <<KW(<<"a", "b">>, VAR_CD), KW(<<"c", "d">>, VAR_AB)>> }

-----------------------------------------------------------------------------
(* The calls *)

\* A load_tmpl_str call at its first statement.
Frame(content, skip_undefined, kwargs) ==
    [content |-> content, skip_undefined |-> skip_undefined, kwargs |-> kwargs,
     pc |-> "imports", imp |-> NoMatch, var_idx |-> 1]

\* Faulty variant: the recursive call leaves skip_undefined at its default.
load_tmpl_default_policy(tmpl_file, skip_undefined, kwargs) ==
    Frame(fs[tmpl_file], FALSE, kwargs)

\* load_tmpl(tmpl_file,skip_undefined,**kwargs) once the file is open: read it
\* and call load_tmpl_str on what was read.
load_tmpl(tmpl_file, skip_undefined, kwargs) ==
    Frame(fs[tmpl_file], skip_undefined, kwargs)

Top == stack[Len(stack)]

SetTop(f) == [stack EXCEPT ![Len(stack)] = f]

NoSplice ==
    [kind |-> "none", name |-> <<>>, before |-> <<>>, start |-> 0, end |-> 0,
     text |-> <<>>, after |-> <<>>]

\* Faulty variant: an exception handler at the top level returns the text as it stands.
RaiseCaught(kind, value) ==
    /\ stack' = <<>>
    /\ outcome' = [kind |-> "returned", value |-> stack[1].content]

\* An exception nothing catches: every active call is abandoned.
Raise(kind, value) ==
    /\ stack' = <<>>
    /\ outcome' = [kind |-> kind, value |-> value]

Init ==
    /\ fs \in FileSystems
    /\ call \in [content : RootTexts, skip_undefined : BOOLEAN, kwargs : KwargsChoices]
    /\ stack = <<Frame(call.content, call.skip_undefined, call.kwargs)>>
    /\ outcome = [kind |-> "running", value |-> <<>>]
    /\ opened = <<>>
    /\ lastSplice = NoSplice

\* The import loop finds an import whose file exists: load_tmpl opens it and
\* calls load_tmpl_str on its content.
ImportOpen ==
    /\ stack # <<>>
    /\ Top.pc = "imports"
    /\ LET imp == SearchImport(Top.content) IN
        /\ imp # NoMatch
        /\ imp.group \in DOMAIN fs
        /\ stack' = Append(SetTop([Top EXCEPT !.pc = "call", !.imp = imp]),
                           load_tmpl(imp.group, Top.skip_undefined, Top.kwargs))
        /\ opened' = Append(opened, imp.group)
    /\ UNCHANGED <<fs, call, outcome, lastSplice>>

\* The import loop finds an import whose file does not exist: open() raises.
ImportMissing ==
    /\ stack # <<>>
    /\ Top.pc = "imports"
    /\ LET imp == SearchImport(Top.content) IN
        /\ imp # NoMatch
        /\ imp.group \notin DOMAIN fs
        /\ Raise("IOError", imp.group)
        /\ opened' = Append(opened, imp.group)
    /\ UNCHANGED <<fs, call, lastSplice>>

\* The import loop ends: re.search finds no import.
ImportsDone ==
    /\ stack # <<>>
    /\ Top.pc = "imports"
    /\ SearchImport(Top.content) = NoMatch
    /\ stack' = SetTop([Top EXCEPT !.pc = "vars"])
    /\ UNCHANGED <<fs, call, outcome, opened, lastSplice>>

\* One pass of the variable loop (skip_undefined false), the variable is given.
VarSubstitute ==
    /\ stack # <<>>
    /\ Top.pc = "vars"
    /\ ~Top.skip_undefined
    /\ LET var == SearchVariable(Top.content) IN
        /\ var # NoMatch
        /\ HasKey(Top.kwargs, var.group)
        /\ LET var_content == Get(Top.kwargs, var.group)
               indent == get_indent_for(Top.content, var.start - 1)
               content == Splice(Top.content, var, apply_indent_to(var_content, indent))
           IN /\ stack' = SetTop([Top EXCEPT !.content = content])
              /\ lastSplice' = [kind |-> "variable", name |-> var.group,
                                before |-> Top.content, start |-> var.start,
                                end |-> var.end, text |-> var_content, after |-> content]
    /\ UNCHANGED <<fs, call, outcome, opened>>

\* One pass of the variable loop, the variable is not given: kwargs[...] raises.
VarKeyError ==
    /\ stack # <<>>
    /\ Top.pc = "vars"
    /\ ~Top.skip_undefined
    /\ LET var == SearchVariable(Top.content) IN
        /\ var # NoMatch
        /\ ~HasKey(Top.kwargs, var.group)
        /\ Raise("KeyError", var.group)
    /\ UNCHANGED <<fs, call, opened, lastSplice>>

\* One pass of "for var in kwargs" (skip_undefined true).
PassThroughKey ==
    /\ stack # <<>>
    /\ Top.pc = "vars"
    /\ Top.skip_undefined
    /\ Top.var_idx <= Len(Top.kwargs)
    /\ LET var == Top.kwargs[Top.var_idx].name
           value == Top.kwargs[Top.var_idx].value
           content == str_replace(Top.content, Marker(var), value)
       IN IF str_find(Top.content, Marker(var)) > 0
          THEN /\ stack' = SetTop([Top EXCEPT !.content = content,
                                              !.var_idx = Top.var_idx + 1])
               /\ lastSplice' = [kind |-> "replace", name |-> var,
                                 before |-> Top.content, start |-> 0, end |-> 0,
                                 text |-> value, after |-> content]
          ELSE /\ stack' = SetTop([Top EXCEPT !.var_idx = Top.var_idx + 1])
               /\ UNCHANGED lastSplice
    /\ UNCHANGED <<fs, call, outcome, opened>>

\* Both loops of the variable phase are over: "return content" is next.
AtReturn ==
    /\ stack # <<>>
    /\ Top.pc = "vars"
    /\ IF Top.skip_undefined
       THEN Top.var_idx > Len(Top.kwargs)
       ELSE SearchVariable(Top.content) = NoMatch

\* The top-level call returns.
ReturnTop ==
    /\ AtReturn
    /\ Len(stack) = 1
    /\ stack' = <<>>
    /\ outcome' = [kind |-> "returned", value |-> Top.content]
    /\ UNCHANGED <<fs, call, opened, lastSplice>>

\* A recursive call returns to the import loop of its caller, which indents
\* what it got and puts it where the import was.
ReturnToCaller ==
    /\ AtReturn
    /\ Len(stack) > 1
    /\ LET caller == stack[Len(stack) - 1]
           imp == caller.imp
           indent == get_indent_for(caller.content, imp.start - 1)
           content == Splice(caller.content, imp, apply_indent_to(Top.content, indent))
       IN /\ stack' = [SubSeq(stack, 1, Len(stack) - 1) EXCEPT ![Len(stack) - 1] =
                          [caller EXCEPT !.content = content, !.pc = "imports",
                                         !.imp = NoMatch]]
          /\ lastSplice' = [kind |-> "import", name |-> imp.group,
                            before |-> caller.content, start |-> imp.start,
                            end |-> imp.end, text |-> Top.content, after |-> content]
    /\ UNCHANGED <<fs, call, outcome, opened>>

Next ==
    \/ ImportOpen
    \/ ImportMissing
    \/ ImportsDone
    \/ VarSubstitute
    \/ VarKeyError
    \/ PassThroughKey
    \/ ReturnTop
    \/ ReturnToCaller

Spec == Init /\ [][Next]_vars

LiveInit ==
    /\ Init
    /\ call.content \in Texts(LiveParts)

\* The interpreter always takes the next step of a call that has one.
LiveSpec == LiveInit /\ [][Next]_vars /\ WF_vars(Next)

-----------------------------------------------------------------------------
(* The marker grammar and the indentation rule as the specification words   *)
(* them, stated over positions and independent of the scanning code above.  *)

Blank == {"\t", " "}

\* text[i..j] is '{{$' + one or more non-brace characters + '}}'.
IsImportAt(text, i, j) ==
    /\ 1 <= i /\ i + 5 <= j /\ j <= Len(text)
    /\ text[i] = "{" /\ text[i + 1] = "{" /\ text[i + 2] = "$"
    /\ text[j - 1] = "}" /\ text[j] = "}"
    /\ \A k \in (i + 3)..(j - 2) : text[k] \notin Braces

HasImportMarker(text) ==
    \E i \in 1..Len(text) : \E j \in i..Len(text) : IsImportAt(text, i, j)

\* text[i..j] is '{{' + identifier + '}}': one or more non-brace characters,
\* the first of them not '$'.
IsVariableAt(text, i, j) ==
    /\ 1 <= i /\ i + 4 <= j /\ j <= Len(text)
    /\ text[i] = "{" /\ text[i + 1] = "{" /\ text[i + 2] # "$"
    /\ text[j - 1] = "}" /\ text[j] = "}"
    /\ \A k \in (i + 2)..(j - 2) : text[k] \notin Braces

HasVariableMarker(text) ==
    \E i \in 1..Len(text) : \E j \in i..Len(text) : IsVariableAt(text, i, j)

\* m is the first import marker of text in document order.
IsLeftmostImport(text, m) ==
    /\ IsImportAt(text, m.start, m.end)
    /\ m.group = SubSeq(text, m.start + 3, m.end - 2)
    /\ \A i \in 1..(m.start - 1) : \A j \in i..Len(text) : ~IsImportAt(text, i, j)

\* The maximal run of tabs and spaces that ends text.
IndentOf(text) ==
    LET n == CHOOSE n \in 0..Len(text) :
                 /\ \A k \in (Len(text) - n + 1)..Len(text) : text[k] \in Blank
                 /\ n < Len(text) => text[Len(text) - n] \notin Blank
    IN SubSeq(text, Len(text) - n + 1, Len(text))

\* text with w put at the start of every line after the first.
RECURSIVE PrefixLines(_, _)
PrefixLines(text, w) ==
    IF text = <<>> THEN <<>>
    ELSE IF Head(text) = "\n" THEN <<"\n">> \o w \o PrefixLines(Tail(text), w)
    ELSE <<Head(text)>> \o PrefixLines(Tail(text), w)

\* text without the tabs, spaces and newlines that end it.
Stripped(text) ==
    LET keep == {k \in 1..Len(text) : text[k] \notin {"\t", " ", "\r", "\n"}}
    IN IF keep = {} THEN <<>>
       ELSE SubSeq(text, 1, CHOOSE k \in keep : \A l \in keep : l <= k)

\* The parts of the text around the marker of the last substitution.
SplicePre == SubSeq(lastSplice.before, 1, lastSplice.start - 1)

SplicePost == SubSeq(lastSplice.before, lastSplice.end + 1, Len(lastSplice.before))

Identifiers == {<<"x">>, <<"a", "b">>, <<"c", "d">>}

-----------------------------------------------------------------------------
(* C1 *)

\* C1 as stated: a returned text contains no import marker, whatever the
\* binding values contain.
C1_NoImportMarkerReturned ==
    outcome.kind = "returned" => ~HasImportMarker(outcome.value)

\* C1 as amended: a returned text contains no import marker when the variable
\* phase of the top-level call replaced nothing (the last substitution, if any,
\* was an import); a marker can only come in with a substituted value.
C1_NoImportMarkerUnlessSubstituted ==
    (outcome.kind = "returned" /\ lastSplice.kind \in {"none", "import"})
        => ~HasImportMarker(outcome.value)

C1_Witness ==
    /\ outcome.kind = "returned"
    /\ lastSplice.kind = "import"
    /\ Len(opened) >= 2
    /\ \E k \in 1..Len(call.kwargs) : HasImportMarker(call.kwargs[k].value)

(* C2 *)

\* C2 as stated: under skip_undefined=False a returned text contains no
\* variable marker, one-character identifiers included.
C2_NoVariableMarkerUnderFail ==
    (outcome.kind = "returned" /\ ~call.skip_undefined)
        => ~HasVariableMarker(outcome.value)

(* C3 *)

\* C3 as stated: when the root text holds a marker of an identifier that is not
\* bound and every import loads, a finished call has raised KeyError with that
\* identifier under skip_undefined=False, and has returned a text that holds
\* the marker under skip_undefined=True.
C3_UndefinedIdentifier ==
    \A name \in Identifiers :
        ( /\ str_find(call.content, Marker(name)) > 0
          /\ ~HasKey(call.kwargs, name)
          /\ outcome.kind \notin {"running", "IOError"} )
        => IF call.skip_undefined
           THEN /\ outcome.kind = "returned"
                /\ str_find(outcome.value, Marker(name)) > 0
           ELSE outcome = [kind |-> "KeyError", value |-> name]

(* C4 *)

\* C4: a path that cannot be opened is the last one opened, and the whole call
\* has then ended in IOError for that path with every level abandoned and no
\* text returned, under either policy.
C4_MissingImportIsFatal ==
    \A k \in 1..Len(opened) :
        opened[k] \notin DOMAIN fs
            => /\ k = Len(opened)
               /\ stack = <<>>
               /\ outcome = [kind |-> "IOError", value |-> opened[k]]

C4_Witness ==
    /\ outcome.kind = "IOError"
    /\ Len(opened) >= 3
    /\ call.skip_undefined
    /\ lastSplice.kind = "import"

(* C5 *)

\* C5 as stated (variable loop): after a value has been spliced in, the next
\* marker the loop resolves lies after the inserted value, never in it.
C5_ValueNotResolvedAgain ==
    ( /\ stack # <<>>
      /\ Top.pc = "vars"
      /\ ~Top.skip_undefined
      /\ lastSplice.kind = "variable"
      /\ lastSplice.after = Top.content )
    => LET inserted == Len(lastSplice.after) - Len(SplicePre) - Len(SplicePost)
           var == SearchVariable(Top.content)
       IN var = NoMatch \/ var.start >= lastSplice.start + inserted

(* C6 *)

RECURSIVE ReplaceIndented(_, _, _, _)
ReplaceIndented(content, old, value, from) ==
    LET p == FindFrom(content, old, from) IN
    IF p = 0 THEN SubSeq(content, from, Len(content))
    ELSE SubSeq(content, from, p - 1)
         \o Stripped(PrefixLines(value, IndentOf(SubSeq(content, 1, p - 1))))
         \o ReplaceIndented(content, old, value, p + Len(old))

\* C7 as stated: under skip_undefined=True every occurrence of a bound key's
\* marker is replaced by the value indented for that occurrence, as the
\* variable loop of skip_undefined=False does.
C7_PassThroughIndents ==
    lastSplice.kind = "replace"
        => lastSplice.after =
              ReplaceIndented(lastSplice.before, Marker(lastSplice.name), lastSplice.text, 1)

(* C8 *)

\* C8: every active call, at any depth, holds the keyword arguments and the
\* skip_undefined of the top-level call, and a substituted value is the one the
\* top-level keyword arguments give for the identifier.
C8_GlobalBindings ==
    /\ \A k \in 1..Len(stack) :
          /\ stack[k].kwargs = call.kwargs
          /\ stack[k].skip_undefined = call.skip_undefined
    /\ lastSplice.kind \in {"variable", "replace"}
          => /\ HasKey(call.kwargs, lastSplice.name)
             /\ lastSplice.text = Get(call.kwargs, lastSplice.name)

C8_Witness ==
    /\ Len(stack) >= 2
    /\ call.skip_undefined
    /\ lastSplice.kind = "replace"
    /\ lastSplice.after = Top.content

(* C9 *)

\* A file is opened only for the first import marker of the innermost call's
\* text, while every enclosing call waits at the first import marker of its
\* own text and keeps that text until the import returns.
ReadsDepthFirst ==
    /\ \A k \in 1..(Len(stack) - 1) :
          /\ stack[k].pc = "call"
          /\ IsLeftmostImport(stack[k].content, stack[k].imp)
    /\ opened' # opened
          => /\ stack # <<>>
             /\ Top.pc = "imports"
             /\ \E m \in {[start |-> i, end |-> j,
                           group |-> opened'[Len(opened')]] :
                              i \in 1..Len(Top.content), j \in 1..Len(Top.content)} :
                   IsLeftmostImport(Top.content, m)
    /\ \A k \in 1..Len(stack) :
          (k <= Len(stack') /\ stack'[k].content # stack[k].content)
              => \/ k = Len(stack) /\ stack[k].pc = "vars" /\ Len(stack') = k
                 \/ k = Len(stack) - 1 /\ Len(stack') = k

\* C9 as stated: files are read depth-first and left to right, and no variable
\* is substituted into a text that contains an import marker.
C9_DepthFirstThenVariables ==
    [][ /\ ReadsDepthFirst
        /\ lastSplice'.kind \in {"variable", "replace"}
              => ~HasImportMarker(lastSplice'.before) ]_vars

\* C9 as amended: files are read depth-first and left to right, and the
\* variable phase of a call starts only on a text without import markers and
\* is the only place where variables are substituted (an import marker that a
\* substituted value brings in may be there during later substitutions).
C9_DepthFirstThenVariablePhase ==
    [][ /\ ReadsDepthFirst
        /\ \A k \in 1..Len(stack) :
              (k <= Len(stack') /\ stack[k].pc # "vars" /\ stack'[k].pc = "vars")
                  => ~HasImportMarker(stack'[k].content)
        /\ (lastSplice' # lastSplice /\ lastSplice'.kind \in {"variable", "replace"})
              => /\ stack # <<>>
                 /\ Top.pc = "vars"
                 /\ lastSplice'.before = Top.content ]_vars

C9_Witness ==
    /\ Len(opened) >= 4
    /\ Len(stack) = 1
    /\ Top.pc = "vars"
    /\ lastSplice.kind \in {"variable", "replace"}
    /\ HasImportMarker(lastSplice.after)

(* C10 *)

\* C10 as stated: with no import cycle (no file system here has one) the
\* top-level call ends, with a result or an exception.
C10_Terminates == <>(stack = <<>>)

====
